---- MODULE Spec2Model ----
(***************************************************************************)
(* Smart Pharma Assistant (src/app.py): the sale transaction, the alert   *)
(* rule engine with its duplicate suppression, and the background alert   *)
(* checker, over the SQLite store created by src/init_db.py.              *)
(*                                                                         *)
(* The store is modelled by its committed tables.  Every handler opens a  *)
(* connection of its own (get_db); a connection's uncommitted writes are  *)
(* private to it, the database has a single writer at a time (dbLock),    *)
(* and a connection dropped without commit loses its writes.              *)
(* Dates are day numbers; DATE('now') and datetime.now().date() are both  *)
(* the variable today.                                                     *)
(***************************************************************************)
EXTENDS Integers, Sequences, FiniteSets, TLC

VARIABLES
    medicines,  \* table medicines: id -> name, for the ids that exist
    batches,    \* table batches: row id -> [medicine_id, batch_no, quantity, expiry_date]
    sales,      \* table sales: row id -> [batch_id, quantity_sold, selling_price, customer_name]
    alerts,     \* table alerts: row id -> [alert_type, message, medicine_id, batch_id, priority, is_read]
    today,      \* the current date, as a day number
    dbLock,     \* the connection holding SQLite's write lock, NoOne when free
    req,        \* sell_medicine POST requests in flight, one per request thread
    worker,     \* threads running create_alert calls step by step
    started,    \* hasattr(app, 'alert_checker_started')
    threads,    \* the alert_checker_thread loops alive in the process
    starter,    \* callers of start_alert_checker: the entry point and the logins
    sessions,   \* the logins whose session holds a user_id
    listing     \* the rows of the last response of the all-alerts view

vars == <<medicines, batches, sales, alerts, today, dbLock, req, worker,
          started, threads, starter, sessions, listing>>

-----------------------------------------------------------------------------
(* Bounds of the model. *)

MaxAlerts == 3
MaxBatches == 2
MaxDay == 1
MaxSales == 3
MaxScanSales == 1

-----------------------------------------------------------------------------
(* Program constants. *)

DedupPrefixLen == 50
LowStockLimit == 20
LowStockHigh == 5
NearExpiryDays == 30
NearExpiryHigh == 7
NormalSleep == 300
ErrorSleep == 60
\* tax_rate = 0.05, in percent
TaxRatePercent == 5

\* SQL NULL in the id columns of alerts (the ids of rows start at 1).
NULL == 0
\* No connection holds the write lock.
NoOne == "none"

Min(a, b) == IF a <= b THEN a ELSE b

-----------------------------------------------------------------------------
(* Text: Python's str and SQLite's LIKE. *)

\* The ASCII letters SQLite's LIKE folds: 'A' LIKE 'a' is true.
FoldMap ==
    ("A" :> "a") @@ ("B" :> "b") @@ ("C" :> "c") @@ ("D" :> "d") @@ ("E" :> "e") @@
    ("F" :> "f") @@ ("G" :> "g") @@ ("H" :> "h") @@ ("I" :> "i") @@ ("J" :> "j") @@
    ("K" :> "k") @@ ("L" :> "l") @@ ("M" :> "m") @@ ("N" :> "n") @@ ("O" :> "o") @@
    ("P" :> "p") @@ ("Q" :> "q") @@ ("R" :> "r") @@ ("S" :> "s") @@ ("T" :> "t") @@
    ("U" :> "u") @@ ("V" :> "v") @@ ("W" :> "w") @@ ("X" :> "x") @@ ("Y" :> "y") @@
    ("Z" :> "z")

Fold(c) == IF c \in DOMAIN FoldMap THEN FoldMap[c] ELSE c

CharAt(s, i) == SubSeq(s, i, i)

\* pattern[i..] LIKE text[j..]: % matches any run of characters, _ any one
\* character, every other character itself up to ASCII case.
RECURSIVE LikeFrom(_, _, _, _)
LikeFrom(pattern, text, i, j) ==
    IF i > Len(pattern) THEN j > Len(text)
    ELSE LET c == CharAt(pattern, i) IN
         IF c = "%" THEN \E k \in j..(Len(text) + 1) : LikeFrom(pattern, text, i + 1, k)
         ELSE IF j > Len(text) THEN FALSE
         ELSE IF c = "_" THEN LikeFrom(pattern, text, i + 1, j + 1)
         ELSE /\ Fold(c) = Fold(CharAt(text, j))
              /\ LikeFrom(pattern, text, i + 1, j + 1)

\* text LIKE pattern
Like(text, pattern) == LikeFrom(pattern, text, 1, 1)

\* message[:50]
MessagePrefix(message) == SubSeq(message, 1, Min(DedupPrefixLen, Len(message)))

\* f'%{message[:50]}%'
DedupPattern(message) == "%" \o MessagePrefix(message) \o "%"

-----------------------------------------------------------------------------
(* create_alert *)

\* create_alert without its look-up of an existing alert
ExistingAlertNoCheck(al, alert_type, message) == FALSE

\* SELECT id FROM alerts WHERE alert_type = ? AND message LIKE ? AND is_read = 0
ExistingAlert(al, alert_type, message) ==
    \E k \in 1..Len(al) :
        /\ al[k].alert_type = alert_type
        /\ al[k].is_read = FALSE
        /\ Like(al[k].message, DedupPattern(message))

\* INSERT INTO alerts (...): is_read takes its default 0
AlertRow(c) ==
    [alert_type |-> c.alert_type, message |-> c.message, medicine_id |-> c.medicine_id,
     batch_id |-> c.batch_id, priority |-> c.priority, is_read |-> FALSE]

\* One create_alert call run to its end on the alerts table al.
CreateAlert(al, c) ==
    IF ExistingAlert(al, c.alert_type, c.message) THEN al ELSE Append(al, AlertRow(c))

-----------------------------------------------------------------------------
(* check_and_create_alerts: the three rules and their create_alert calls *)

RECURSIVE SumQuantity(_, _, _)
\* SUM(b.quantity) over the rows k..Len(bs) of bs with medicine_id = mid
SumQuantity(bs, mid, k) ==
    IF k > Len(bs) THEN 0
    ELSE (IF bs[k].medicine_id = mid THEN bs[k].quantity ELSE 0) + SumQuantity(bs, mid, k + 1)

TotalStock(bs, mid) == SumQuantity(bs, mid, 1)

\* the ascending enumeration of a finite set of row ids
RECURSIVE SortedIds(_)
SortedIds(S) ==
    IF S = {} THEN << >>
    ELSE LET m == CHOOSE x \in S : \A y \in S : x <= y
         IN <<m>> \o SortedIds(S \ {m})

LowStockAlert(meds, bs, mid) ==
    LET total_stock == TotalStock(bs, mid) IN
    [alert_type |-> "low_stock",
     message |-> meds[mid] \o " is running low (" \o ToString(total_stock) \o " units left)",
     medicine_id |-> mid, batch_id |-> NULL,
     priority |-> IF total_stock <= LowStockHigh THEN "high" ELSE "medium"]

\* rule 1 as its comment has it: "less than 20 units total"
LowStockCandidatesBelow(meds, bs) ==
    LET ids == SortedIds({mid \in DOMAIN meds :
                            /\ TotalStock(bs, mid) > 0
                            /\ TotalStock(bs, mid) < LowStockLimit})
    IN [k \in 1..Len(ids) |-> LowStockAlert(meds, bs, ids[k])]

\* rule 1: the medicines whose summed quantity is > 0 (HAVING) and <= 20
LowStockCandidates(meds, bs) ==
    LET ids == SortedIds({mid \in DOMAIN meds :
                            /\ TotalStock(bs, mid) > 0
                            /\ TotalStock(bs, mid) <= LowStockLimit})
    IN [k \in 1..Len(ids) |-> LowStockAlert(meds, bs, ids[k])]

NearExpiryAlert(meds, bs, now, bid) ==
    LET days_left == bs[bid].expiry_date - now IN
    [alert_type |-> "expiry",
     message |-> "Batch " \o bs[bid].batch_no \o " of " \o meds[bs[bid].medicine_id]
                 \o " expires in " \o ToString(days_left) \o " days",
     medicine_id |-> bs[bid].medicine_id, batch_id |-> bid,
     priority |-> IF days_left <= NearExpiryHigh THEN "high" ELSE "medium"]

\* rule 2: batches JOIN medicines WHERE expiry_date BETWEEN today AND today+30 AND quantity > 0
NearExpiryCandidates(meds, bs, now) ==
    LET ids == SortedIds({bid \in 1..Len(bs) :
                            /\ bs[bid].medicine_id \in DOMAIN meds
                            /\ bs[bid].expiry_date >= now
                            /\ bs[bid].expiry_date <= now + NearExpiryDays
                            /\ bs[bid].quantity > 0})
    IN [k \in 1..Len(ids) |-> NearExpiryAlert(meds, bs, now, ids[k])]

ExpiredAlert(meds, bs, bid) ==
    [alert_type |-> "expired",
     message |-> "Batch " \o bs[bid].batch_no \o " of " \o meds[bs[bid].medicine_id]
                 \o " has expired",
     medicine_id |-> bs[bid].medicine_id, batch_id |-> bid, priority |-> "high"]

\* rule 3: batches JOIN medicines WHERE expiry_date < today AND quantity > 0
ExpiredCandidates(meds, bs, now) ==
    LET ids == SortedIds({bid \in 1..Len(bs) :
                            /\ bs[bid].medicine_id \in DOMAIN meds
                            /\ bs[bid].expiry_date < now
                            /\ bs[bid].quantity > 0})
    IN [k \in 1..Len(ids) |-> ExpiredAlert(meds, bs, ids[k])]

\* the create_alert calls of one rule, in order
RECURSIVE CreateAlerts(_, _, _)
CreateAlerts(al, cands, k) ==
    IF k > Len(cands) THEN al
    ELSE CreateAlerts(CreateAlert(al, cands[k]), cands, k + 1)

\* One check_and_create_alerts call run to its end with no other writer.
ScanAll(al, meds, bs, now) ==
    LET a1 == CreateAlerts(al, LowStockCandidates(meds, bs), 1)
        a2 == CreateAlerts(a1, NearExpiryCandidates(meds, bs, now), 1)
    IN CreateAlerts(a2, ExpiredCandidates(meds, bs, now), 1)

\* the alerts table after the first n rules of a scan
ScanRules(n) ==
    LET a1 == CreateAlerts(alerts, LowStockCandidates(medicines, batches), 1)
    IN IF n = 0 THEN alerts
       ELSE IF n = 1 THEN a1
       ELSE CreateAlerts(a1, NearExpiryCandidates(medicines, batches, today), 1)

\* the alerts table after a scan in which the loop of rule 2 raises at its row
\* k: datetime.strptime(batch['expiry_date'], '%Y-%m-%d') does not parse the
\* stored text.  The rows before k have had their create_alert call; the
\* exception leaves the loop and the function through except Exception
\* (lines 161-163), so the rows after k and rule 3 are not come to.
ScanRaisingAt(al, meds, bs, now, k) ==
    LET a1 == CreateAlerts(al, LowStockCandidates(meds, bs), 1)
    IN CreateAlerts(a1, SubSeq(NearExpiryCandidates(meds, bs, now), 1, k - 1), 1)

\* the alerts table after a scan in which the create_alert call for row k of
\* rule 1 fails (its INSERT raises): create_alert catches the exception and
\* returns False, and the scan goes on with the next row
ScanInsertFailingAt(al, meds, bs, now, k) ==
    LET c1 == LowStockCandidates(meds, bs)
        a1 == CreateAlerts(CreateAlerts(al, SubSeq(c1, 1, k - 1), 1), c1, k + 1)
        a2 == CreateAlerts(a1, NearExpiryCandidates(meds, bs, now), 1)
    IN CreateAlerts(a2, ExpiredCandidates(meds, bs, now), 1)

-----------------------------------------------------------------------------
(* Handlers run with no other thread between their statements. *)

\* check_and_create_alerts when evaluating row k of rule 2 raises
scan_raising ==
    /\ dbLock = NoOne
    /\ \E k \in 1..Len(NearExpiryCandidates(medicines, batches, today)) :
          /\ Len(ScanRaisingAt(alerts, medicines, batches, today, k)) <= MaxAlerts
          /\ alerts' = ScanRaisingAt(alerts, medicines, batches, today, k)
    /\ UNCHANGED <<medicines, batches, sales, today, dbLock, req, worker,
                   started, threads, starter, sessions, listing>>

\* check_and_create_alerts when the create_alert call of row k of rule 1 fails
scan_insert_failing ==
    /\ dbLock = NoOne
    /\ \E k \in 1..Len(LowStockCandidates(medicines, batches)) :
          /\ Len(ScanInsertFailingAt(alerts, medicines, batches, today, k)) <= MaxAlerts
          /\ alerts' = ScanInsertFailingAt(alerts, medicines, batches, today, k)
    /\ UNCHANGED <<medicines, batches, sales, today, dbLock, req, worker,
                   started, threads, starter, sessions, listing>>

NoRequestInFlight == \A p \in DOMAIN req : req[p].pc = "idle"

\* check_and_create_alerts, as the background loop and view_alerts call it
check_and_create_alerts ==
    /\ dbLock = NoOne
    /\ Len(ScanAll(alerts, medicines, batches, today)) <= MaxAlerts
    /\ alerts' = ScanAll(alerts, medicines, batches, today)
    /\ UNCHANGED <<medicines, batches, sales, today, dbLock, req, worker,
                   started, threads, starter, sessions, listing>>

\* a mark-read that updates every row
mark_alert_read_every(id) ==
    /\ dbLock = NoOne
    /\ alerts' = [k \in 1..Len(alerts) |-> [alerts[k] EXCEPT !.is_read = TRUE]]
    /\ UNCHANGED <<medicines, batches, sales, today, dbLock, req, worker,
                   started, threads, starter, sessions, listing>>

\* mark_alert_read(id), mark_alert_read_api(id): UPDATE alerts SET is_read = 1 WHERE id = ?
mark_alert_read(id) ==
    /\ dbLock = NoOne
    /\ alerts' = [k \in 1..Len(alerts) |->
                    IF k = id THEN [alerts[k] EXCEPT !.is_read = TRUE] ELSE alerts[k]]
    /\ UNCHANGED <<medicines, batches, sales, today, dbLock, req, worker,
                   started, threads, starter, sessions, listing>>

\* clear_all_alerts: UPDATE alerts SET is_read = 1 WHERE is_read = 0
clear_all_alerts ==
    /\ dbLock = NoOne
    /\ alerts' = [k \in 1..Len(alerts) |-> [alerts[k] EXCEPT !.is_read = TRUE]]
    /\ UNCHANGED <<medicines, batches, sales, today, dbLock, req, worker,
                   started, threads, starter, sessions, listing>>

\* the alert add_batch raises for a batch that expires within 30 days
NewBatchAlert(meds, f, now) ==
    LET days_until_expiry == f.expiry_date - now IN
    [alert_type |-> "expiry",
     message |-> "New batch " \o f.batch_no \o " of " \o meds[f.medicine_id]
                 \o " expires in " \o ToString(days_until_expiry) \o " days",
     medicine_id |-> f.medicine_id, batch_id |-> NULL,
     priority |-> IF days_until_expiry <= NearExpiryHigh THEN "high" ELSE "medium"]

BatchRow(f) ==
    [medicine_id |-> f.medicine_id, batch_no |-> f.batch_no,
     quantity |-> f.quantity, expiry_date |-> f.expiry_date]

\* SELECT id FROM batches WHERE batch_no = ?
BatchNoExists(bs, batch_no) == \E k \in 1..Len(bs) : bs[k].batch_no = batch_no

\* add_batch POST with the form f = [medicine_id, batch_no, quantity, expiry_date]
add_batch(f) ==
    /\ dbLock = NoOne
    /\ Len(batches) < MaxBatches
    /\ f.batch_no # ""
    /\ ~BatchNoExists(batches, f.batch_no)
    /\ batches' = Append(batches, BatchRow(f))
    /\ IF /\ f.expiry_date - today <= NearExpiryDays
          /\ f.medicine_id \in DOMAIN medicines
       THEN /\ Len(CreateAlert(alerts, NewBatchAlert(medicines, f, today))) <= MaxAlerts
            /\ alerts' = CreateAlert(alerts, NewBatchAlert(medicines, f, today))
       ELSE alerts' = alerts
    /\ UNCHANGED <<medicines, sales, today, dbLock, req, worker,
                   started, threads, starter, sessions, listing>>

\* delete_medicine(id): DELETE FROM medicines WHERE id = ?.  The connection
\* never sets PRAGMA foreign_keys, so SQLite does not act on the ON DELETE
\* CASCADE of batches.medicine_id: the batches table is left as it is.
delete_medicine(id) ==
    /\ dbLock = NoOne
    /\ medicines' = [m \in DOMAIN medicines \ {id} |-> medicines[m]]
    /\ UNCHANGED <<batches, sales, alerts, today, dbLock, req, worker,
                   started, threads, starter, sessions, listing>>

\* midnight
NextDay ==
    /\ today < MaxDay
    /\ today' = today + 1
    /\ UNCHANGED <<medicines, batches, sales, alerts, dbLock, req, worker,
                   started, threads, starter, sessions, listing>>

-----------------------------------------------------------------------------
(* sell_medicine POST, statement by statement; p is the request's thread *)

\* Money: a price is a whole number of cents; an amount that has been
\* multiplied by the tax rate is a whole number of hundredths of a cent.
NoReceipt == [items |-> << >>, subtotal |-> 0, tax_amount |-> 0, grand_total |-> 0]

IdleRequest ==
    [pc |-> "idle", customer_name |-> "", customer_phone |-> "",
     batch_ids |-> << >>, quantities |-> << >>, prices |-> << >>,
     i |-> 0, txBatches |-> << >>, txSales |-> << >>, error |-> "",
     total_amount |-> 0, sale_items |-> << >>, receipt |-> NoReceipt]

\* a connection that reads the committed batches whatever it has written
ViewBatchesCommitted(p) == batches

\* what p's connection reads: its own uncommitted writes once it has written
ViewBatches(p) == IF dbLock = p THEN req[p].txBatches ELSE batches
ViewSales(p) == IF dbLock = p THEN req[p].txSales ELSE sales

\* a failing return that keeps what the connection has written so far
KeptBatches(p) == ViewBatches(p)

\* batches after p returns without db.commit(): the connection is dropped and
\* SQLite rolls its open transaction back
DroppedBatches(p) == batches

\* a failing return that keeps the Sale rows the connection has inserted
KeptSales(p) == ViewSales(p)

\* sales after p returns without db.commit()
DroppedSales(p) == sales

\* the error returns of the handler (jsonify success False): nothing is committed
Fail(p, error) ==
    /\ req' = [req EXCEPT ![p] = [@ EXCEPT !.pc = "failed", !.error = error,
                                           !.txBatches = << >>, !.txSales = << >>]]
    /\ batches' = DroppedBatches(p)
    /\ sales' = DroppedSales(p)
    /\ dbLock' = IF dbLock = p THEN NoOne ELSE dbLock

\* a validation that looks at the cart only
FormErrorCartOnly(f) ==
    IF Len(f.batch_ids) = 0 THEN "empty_cart"
    ELSE IF ~(Len(f.batch_ids) = Len(f.quantities) /\ Len(f.quantities) = Len(f.prices))
    THEN "cart_mismatch"
    ELSE ""

\* the validation of the form (lines 521-545): the error it returns, "" for none
FormError(f) ==
    IF f.customer_name = "" \/ f.customer_phone = "" THEN "customer_required"
    ELSE IF Len(f.batch_ids) = 0 THEN "empty_cart"
    ELSE IF ~(Len(f.batch_ids) = Len(f.quantities) /\ Len(f.quantities) = Len(f.prices))
    THEN "cart_mismatch"
    ELSE ""

\* the form is read and validated (lines 500-545)
SellPost(p, f) ==
    /\ req[p].pc = "idle"
    /\ LET r == [IdleRequest EXCEPT !.customer_name = f.customer_name,
                                    !.customer_phone = f.customer_phone,
                                    !.batch_ids = f.batch_ids,
                                    !.quantities = f.quantities,
                                    !.prices = f.prices]
       IN IF FormError(f) # ""
          THEN req' = [req EXCEPT ![p] = [r EXCEPT !.pc = "failed", !.error = FormError(f)]]
          ELSE req' = [req EXCEPT ![p] = [r EXCEPT !.pc = "check", !.i = 1]]
    /\ UNCHANGED <<medicines, batches, sales, alerts, today, dbLock, worker,
                   started, threads, starter, sessions, listing>>

\* item i: SELECT * FROM batches WHERE id = ?, and the stock check
SellCheck(p) ==
    /\ req[p].pc = "check"
    /\ LET batch_id == req[p].batch_ids[req[p].i]
           quantity == req[p].quantities[req[p].i]
       IN IF batch_id \notin 1..Len(ViewBatches(p))
          THEN Fail(p, "batch_not_found")
          ELSE IF ViewBatches(p)[batch_id].quantity < quantity
          THEN Fail(p, "insufficient_stock")
          ELSE /\ req' = [req EXCEPT ![p].pc = "update"]
               /\ UNCHANGED <<batches, sales, dbLock>>
    /\ UNCHANGED <<medicines, alerts, today, worker, started, threads, starter, sessions, listing>>

\* a Sale row that repeats the first item of the cart
SaleRowFirstItem(p) ==
    [batch_id |-> req[p].batch_ids[1], quantity_sold |-> req[p].quantities[1],
     selling_price |-> req[p].prices[1], customer_name |-> req[p].customer_name,
     customer_phone |-> req[p].customer_phone]

\* the row of INSERT INTO sales for item i
SaleRow(p) ==
    [batch_id |-> req[p].batch_ids[req[p].i], quantity_sold |-> req[p].quantities[req[p].i],
     selling_price |-> req[p].prices[req[p].i], customer_name |-> req[p].customer_name,
     customer_phone |-> req[p].customer_phone]

\* item_total = price * quantity
ItemTotal(price, quantity) == price * quantity

\* the entry of sale_items for item i
SaleItem(p) ==
    [quantity |-> req[p].quantities[req[p].i], price |-> req[p].prices[req[p].i],
     total |-> ItemTotal(req[p].prices[req[p].i], req[p].quantities[req[p].i])]

\* an update that takes one unit whatever the quantity of the line
DecrementedByOne(bs, batch_id, quantity) ==
    [bs EXCEPT ![batch_id].quantity = @ - 1]

\* UPDATE batches SET quantity = quantity - ? WHERE id = ?
Decremented(bs, batch_id, quantity) ==
    [bs EXCEPT ![batch_id].quantity = @ - quantity]

\* item i: UPDATE batches SET quantity = quantity - ?, INSERT INTO sales.  The
\* first write of the connection takes the write lock.
SellUpdate(p) ==
    /\ req[p].pc = "update"
    /\ dbLock \in {NoOne, p}
    /\ LET batch_id == req[p].batch_ids[req[p].i]
           quantity == req[p].quantities[req[p].i]
       IN req' = [req EXCEPT ![p] =
                    [@ EXCEPT !.txBatches = Decremented(ViewBatches(p), batch_id, quantity),
                              !.txSales = Append(ViewSales(p), SaleRow(p)),
                              !.total_amount = @ + SaleItem(p).total,
                              !.sale_items = Append(@, SaleItem(p)),
                              !.i = @ + 1,
                              !.pc = IF req[p].i < Len(req[p].batch_ids) THEN "check" ELSE "commit"]]
    /\ dbLock' = p
    /\ UNCHANGED <<medicines, batches, sales, alerts, today, worker,
                   started, threads, starter, sessions, listing>>

\* item i: the write lock stays with another connection for SQLite's busy timeout,
\* execute raises "database is locked", caught by the item's except (lines 613-619)
SellLocked(p) ==
    /\ req[p].pc = "update"
    /\ dbLock \notin {NoOne, p}
    /\ Fail(p, "exception")
    /\ UNCHANGED <<medicines, alerts, today, worker, started, threads, starter, sessions, listing>>

\* round(x, 2) of an amount x given in hundredths of a cent, in cents: the
\* nearest cent; of an amount half-way between two cents either of them, the
\* binary float deciding which
Round2(x) ==
    LET q == x \div 100
        r == x % 100
    IN IF 2 * r < 100 THEN {q} ELSE IF 2 * r > 100 THEN {q + 1} ELSE {q, q + 1}

\* tax_amount = total_amount * tax_rate, in hundredths of a cent
TaxAmount(total_amount) == total_amount * TaxRatePercent

\* a grand total that leaves the tax out
GrandTotalNoTax(total_amount) == total_amount * 100

\* grand_total = total_amount + tax_amount, in hundredths of a cent
GrandTotal(total_amount) == total_amount * 100 + TaxAmount(total_amount)

\* sale_details: the receipts the response can carry
SaleDetails(p) ==
    {[items |-> req[p].sale_items, subtotal |-> s, tax_amount |-> t, grand_total |-> g] :
        s \in Round2(req[p].total_amount * 100),
        t \in Round2(TaxAmount(req[p].total_amount)),
        g \in Round2(GrandTotal(req[p].total_amount))}

\* db.commit() after the last item, and the receipt of the response
SellCommit(p) ==
    /\ req[p].pc = "commit"
    /\ batches' = req[p].txBatches
    /\ sales' = req[p].txSales
    /\ dbLock' = NoOne
    /\ \E receipt \in SaleDetails(p) :
          req' = [req EXCEPT ![p] = [@ EXCEPT !.pc = "done", !.txBatches = << >>,
                                              !.txSales = << >>, !.receipt = receipt]]
    /\ UNCHANGED <<medicines, alerts, today, worker, started, threads, starter, sessions, listing>>

\* the response is sent; the thread takes the next request
SellReturn(p) ==
    /\ req[p].pc \in {"done", "failed"}
    /\ req' = [req EXCEPT ![p] = IdleRequest]
    /\ UNCHANGED <<medicines, batches, sales, alerts, today, dbLock, worker,
                   started, threads, starter, sessions, listing>>

-----------------------------------------------------------------------------
(* The sale engine: two request threads selling from the same store, and     *)
(* batch creation.                                                           *)

Medicines == (1 :> "A") @@ (2 :> "BA")

SaleThreads == {"s1", "s2"}

\* the forms the add_batch page posts
SaleBatchForms ==
    [medicine_id : {1}, batch_no : {"B1", "B2"}, quantity : {-1, 0, 20}, expiry_date : {40}]

SaleLines == [batch_id : {1, 2}, quantity : {5, 15}, price : {10}]

FormOf(name, phone, lines) ==
    [customer_name |-> name, customer_phone |-> phone,
     batch_ids |-> [k \in 1..Len(lines) |-> lines[k].batch_id],
     quantities |-> [k \in 1..Len(lines) |-> lines[k].quantity],
     prices |-> [k \in 1..Len(lines) |-> lines[k].price]]

\* the forms the sell page posts: one or two cart items, and the malformed ones
SaleForms ==
    {FormOf("Ann", "555", <<l>>) : l \in SaleLines}
    \cup {FormOf("Ann", "555", <<l1, l2>>) : l1 \in SaleLines, l2 \in SaleLines}
    \cup {FormOf("", "555", <<l>>) : l \in SaleLines}
    \cup {FormOf("Ann", "555", << >>)}
    \cup {[FormOf("Ann", "555", <<l>>) EXCEPT !.prices = << >>] : l \in SaleLines}

InitSale ==
    /\ medicines = Medicines
    /\ batches = <<[medicine_id |-> 1, batch_no |-> "B1", quantity |-> 20, expiry_date |-> 40]>>
    /\ sales = << >>
    /\ alerts = << >>
    /\ today = 0
    /\ dbLock = NoOne
    /\ req = [p \in SaleThreads |-> IdleRequest]
    /\ worker = << >>
    /\ started = FALSE
    /\ threads = << >>
    /\ starter = << >>
    /\ sessions = {}
    /\ listing = << >>

NextSale ==
    \/ \E f \in SaleBatchForms : add_batch(f)
    \/ \E p \in SaleThreads, f \in SaleForms : Len(sales) < MaxSales /\ SellPost(p, f)
    \/ \E p \in SaleThreads : SellCheck(p)
    \/ \E p \in SaleThreads : SellUpdate(p)
    \/ \E p \in SaleThreads : SellLocked(p)
    \/ \E p \in SaleThreads : SellCommit(p)
    \/ \E p \in SaleThreads : SellReturn(p)

SpecSale == InitSale /\ [][NextSale]_vars

\* C1: two concurrent sales of one batch that together ask for more than its
\* stock never both succeed: no step takes a batch whose quantity is >= 0 to a
\* negative quantity.
C1_NoOversell ==
    [][\A b \in 1..Len(batches) :
          batches[b].quantity >= 0 => batches'[b].quantity >= 0]_vars

\* C2: the step in which a sale request fails changes no batch quantity and
\* inserts no Sale row, and leaves nothing of the request pending, whatever
\* items it had processed before the failing one.
C2_FailedSaleAtomic ==
    [][\A p \in DOMAIN req :
          (req[p].pc # "failed" /\ req'[p].pc = "failed")
              => /\ batches' = batches
                 /\ sales' = sales
                 /\ dbLock' # p
                 /\ req'[p].txBatches = << >>
                 /\ req'[p].txSales = << >>]_vars

\* C2's case: a request has failed for insufficient stock on its second item,
\* after its first item was decremented and inserted
C2_Witness ==
    \E p \in DOMAIN req :
        /\ req[p].pc = "failed"
        /\ req[p].error = "insufficient_stock"
        /\ req[p].i = 2

\* C3: every batch's quantity is >= 0 in every reachable state.
C3_QuantityNonNegative == \A b \in 1..Len(batches) : batches[b].quantity >= 0

\* the quantity the lines of p's request ask of batch b
RECURSIVE LineQuantity(_, _, _)
LineQuantity(r, b, k) ==
    IF k > Len(r.batch_ids) THEN 0
    ELSE (IF r.batch_ids[k] = b THEN r.quantities[k] ELSE 0) + LineQuantity(r, b, k + 1)

\* C16: the commit of a sale request takes from every batch exactly the summed
\* quantity of the request's lines on it and changes nothing else of the batch,
\* adds or removes no batch, keeps every Sale row there was, and appends one
\* Sale row per line, in order, with the line's batch, quantity and price and
\* the request's customer name and phone.
C16_SaleEffect ==
    [][\A p \in DOMAIN req :
          (req[p].pc = "commit" /\ req'[p].pc = "done")
              => LET r == req[p]
                     n == Len(r.batch_ids)
                 IN /\ Len(batches') = Len(batches)
                    /\ \A b \in 1..Len(batches) :
                          batches'[b] = [batches[b] EXCEPT
                                            !.quantity = @ - LineQuantity(r, b, 1)]
                    /\ Len(sales') = Len(sales) + n
                    /\ SubSeq(sales', 1, Len(sales)) = sales
                    /\ \A k \in 1..n :
                          sales'[Len(sales) + k] =
                              [batch_id |-> r.batch_ids[k],
                               quantity_sold |-> r.quantities[k],
                               selling_price |-> r.prices[k],
                               customer_name |-> r.customer_name,
                               customer_phone |-> r.customer_phone]]_vars

\* C16's case: a request of two lines on the same batch has committed next to
\* Sale rows of an earlier request
C16_Witness ==
    \E p \in DOMAIN req :
        /\ req[p].pc = "done"
        /\ Len(req[p].batch_ids) = 2
        /\ req[p].batch_ids[1] = req[p].batch_ids[2]
        /\ Len(sales) > 2

-----------------------------------------------------------------------------
(* The sell page, one request at a time, with the carts a client can post:   *)
(* prices and quantities of any sign, missing customer fields, lists of      *)
(* different lengths.                                                        *)

CartBatches ==
    <<[medicine_id |-> 1, batch_no |-> "B1", quantity |-> 10, expiry_date |-> 40],
      [medicine_id |-> 2, batch_no |-> "B2", quantity |-> 10, expiry_date |-> 40]>>

\* quantity and price (in cents) of a cart item
CartAmounts ==
    {<<2, 1000>>, <<1, 500>>, <<1, 5>>, <<1, 10>>, <<15, 500>>,
     <<0, 500>>, <<-1, 500>>, <<1, -500>>}

CartLines ==
    {[batch_id |-> b, quantity |-> a[1], price |-> a[2]] : b \in {1, 2, 3}, a \in CartAmounts}

CartForms ==
    {FormOf("Ann", "555", <<l>>) : l \in CartLines}
    \cup {FormOf("Ann", "555", <<l1, l2>>) : l1 \in CartLines, l2 \in CartLines}
    \cup {FormOf("", "555", <<l>>) : l \in CartLines}
    \cup {FormOf("Ann", "", <<l>>) : l \in CartLines}
    \cup {FormOf("Ann", "555", << >>)}
    \cup {[FormOf("Ann", "555", <<l>>) EXCEPT !.prices = << >>] : l \in CartLines}
    \cup {[FormOf("Ann", "555", <<l, l>>) EXCEPT !.quantities = <<l.quantity>>] : l \in CartLines}

InitCart ==
    /\ medicines = Medicines
    /\ batches = CartBatches
    /\ sales = << >>
    /\ alerts = << >>
    /\ today = 0
    /\ dbLock = NoOne
    /\ req = [p \in {"s1"} |-> IdleRequest]
    /\ worker = << >>
    /\ started = FALSE
    /\ threads = << >>
    /\ starter = << >>
    /\ sessions = {}
    /\ listing = << >>

NextCart ==
    \/ \E f \in CartForms : Len(sales) < MaxScanSales /\ SellPost("s1", f)
    \/ SellCheck("s1")
    \/ SellUpdate("s1")
    \/ SellCommit("s1")
    \/ SellReturn("s1")

SpecCart == InitCart /\ [][NextCart]_vars

\* the sum of price * quantity over the lines k.. of a request
RECURSIVE LinesTotal(_, _)
LinesTotal(r, k) ==
    IF k > Len(r.batch_ids) THEN 0
    ELSE r.prices[k] * r.quantities[k] + LinesTotal(r, k + 1)

\* x is y rounded to cents, y in hundredths of a cent
IsRounded(x, y) == 2 * (100 * x - y) <= 100 /\ 2 * (y - 100 * x) <= 100

\* C15: the receipt of a successful sale has one line per cart item whose total
\* is quantity * unit price; its subtotal is the sum of the line totals, its
\* tax_amount 5% of that sum and its grand_total that sum plus 5% of it, each
\* rounded to cents from the unrounded value; 2 units at 10.00 and 1 unit at
\* 5.00 give 25.00, 1.25 and 26.25.
C15_ReceiptTotals ==
    \A p \in DOMAIN req :
        req[p].pc = "done" =>
            LET r == req[p]
                sum == LinesTotal(r, 1)
            IN /\ Len(r.receipt.items) = Len(r.batch_ids)
               /\ \A k \in 1..Len(r.batch_ids) :
                     r.receipt.items[k].total = r.quantities[k] * r.prices[k]
               /\ r.receipt.subtotal = sum
               /\ IsRounded(r.receipt.tax_amount, 5 * sum)
               /\ IsRounded(r.receipt.grand_total, 105 * sum)
               /\ (r.quantities = <<2, 1>> /\ r.prices = <<1000, 500>>)
                     => /\ r.receipt.subtotal = 2500
                        /\ r.receipt.tax_amount = 125
                        /\ r.receipt.grand_total = 2625

\* C15's case: the sale of 2 units at 10.00 and 1 unit at 5.00 from two batches
\* has succeeded
C15_Witness ==
    \E p \in DOMAIN req :
        /\ req[p].pc = "done"
        /\ req[p].batch_ids = <<1, 2>>
        /\ req[p].quantities = <<2, 1>>
        /\ req[p].prices = <<1000, 500>>

\* C18: every Sale row has quantity_sold > 0 and selling_price >= 0.
C18_SaleRowsPositive ==
    \A k \in 1..Len(sales) : sales[k].quantity_sold > 0 /\ sales[k].selling_price >= 0

\* C19: a request whose form has an empty customer name or phone, no cart item,
\* or lists of different lengths is rejected by the step that reads the form:
\* it never comes to read a batch, and batches, sales and the write lock stay
\* as they were.
C19_InvalidFormRejected ==
    [][\A p \in DOMAIN req :
          (/\ req[p].pc = "idle"
           /\ req'[p].pc # "idle"
           /\ \/ req'[p].customer_name = ""
              \/ req'[p].customer_phone = ""
              \/ Len(req'[p].batch_ids) = 0
              \/ Len(req'[p].batch_ids) # Len(req'[p].quantities)
              \/ Len(req'[p].quantities) # Len(req'[p].prices))
              => /\ req'[p].pc = "failed"
                 /\ req'[p].error \in {"customer_required", "empty_cart", "cart_mismatch"}
                 /\ req'[p].i = 0
                 /\ batches' = batches
                 /\ sales' = sales
                 /\ dbLock' = dbLock]_vars

\* C19's case: a request has been rejected for its empty customer phone
\* without coming to its first item
C19_Witness ==
    \E p \in DOMAIN req :
        /\ req[p].pc = "failed"
        /\ req[p].customer_name # ""
        /\ req[p].customer_phone = ""
        /\ Len(req[p].batch_ids) > 0
        /\ req[p].i = 0

-----------------------------------------------------------------------------
(* The alert engine, one handler at a time: scans, acknowledgements, batch   *)
(* creation, sales and the passing of days.                                  *)

AlertBatchForms ==
    [medicine_id : {1}, batch_no : {"B1"}, quantity : {5, 21}, expiry_date : {0, 40}]
    \cup [medicine_id : {2}, batch_no : {"B2"}, quantity : {5}, expiry_date : {40}]

AlertSaleForms ==
    {FormOf("Ann", "555", <<l>>) : l \in [batch_id : {1}, quantity : {1, 16}, price : {10}]}

InitAlert ==
    /\ medicines = Medicines
    /\ batches = << >>
    /\ sales = << >>
    /\ alerts = << >>
    /\ today = 0
    /\ dbLock = NoOne
    /\ req = [p \in {"s1"} |-> IdleRequest]
    /\ worker = << >>
    /\ started = FALSE
    /\ threads = << >>
    /\ starter = << >>
    /\ sessions = {}
    /\ listing = << >>

NextAlert ==
    \/ NoRequestInFlight /\ check_and_create_alerts
    \/ NoRequestInFlight /\ \E id \in 1..Len(alerts) : mark_alert_read(id)
    \/ NoRequestInFlight /\ clear_all_alerts
    \/ NoRequestInFlight /\ \E f \in AlertBatchForms : add_batch(f)
    \/ NoRequestInFlight /\ NextDay
    \/ \E f \in AlertSaleForms : Len(sales) < MaxScanSales /\ SellPost("s1", f)
    \/ SellCheck("s1")
    \/ SellUpdate("s1")
    \/ SellCommit("s1")
    \/ SellReturn("s1")

SpecAlert == InitAlert /\ [][NextAlert]_vars

-----------------------------------------------------------------------------
(* The rules of the scan on stores of one or two batches whose quantities    *)
(* and expiry dates lie on and next to the thresholds.                       *)

RuleQuantities == {0, 5, 15, 20, 21}

\* expiry dates as day numbers, today being 0 at the start
RuleExpiries == {-1, 0, 7, 8, 30, 31}

RuleStores ==
    LET first == [medicine_id : {1}, batch_no : {"B1"},
                  quantity : RuleQuantities, expiry_date : RuleExpiries]
        second == [medicine_id : {1, 2}, batch_no : {"B2"},
                   quantity : RuleQuantities, expiry_date : RuleExpiries]
    IN {<<r>> : r \in first} \cup {<<r1, r2>> : r1 \in first, r2 \in second}

InitRules ==
    /\ medicines = Medicines
    /\ batches \in RuleStores
    /\ sales = << >>
    /\ alerts = << >>
    /\ today = 0
    /\ dbLock = NoOne
    /\ req = << >>
    /\ worker = << >>
    /\ started = FALSE
    /\ threads = << >>
    /\ starter = << >>
    /\ sessions = {}
    /\ listing = << >>

NextRules ==
    \/ check_and_create_alerts
    \/ \E id \in DOMAIN Medicines : delete_medicine(id)
    \/ NextDay

SpecRules == InitRules /\ [][NextRules]_vars

\* the alerts a scan of the present store raises when no alert exists yet
Raised == ScanAll(<< >>, medicines, batches, today)

\* the alerts of one type among al about medicine m, and about batch b
OfMedicine(al, alert_type, m) ==
    {k \in 1..Len(al) : al[k].alert_type = alert_type /\ al[k].medicine_id = m}

OfBatch(al, alert_type, b) ==
    {k \in 1..Len(al) : al[k].alert_type = alert_type /\ al[k].batch_id = b}

C14_ExpiryRules ==
    \A b \in 1..Len(batches) :
        LET days == batches[b].expiry_date - today
            near == OfBatch(Raised, "expiry", b)
            past == OfBatch(Raised, "expired", b)
        IN /\ batches[b].quantity > 0 =>
                 /\ near # {} <=> (days >= 0 /\ days <= 30)
                 /\ \A k \in near : Raised[k].priority = IF days <= 7 THEN "high" ELSE "medium"
                 /\ past # {} <=> days < 0
                 /\ \A k \in past : Raised[k].priority = "high"
           /\ batches[b].quantity = 0 => (near = {} /\ past = {})

\* C20: every batch's medicine_id is the id of a medicine that exists.
C20_BatchesHaveMedicine ==
    \A b \in 1..Len(batches) : batches[b].medicine_id \in DOMAIN medicines

-----------------------------------------------------------------------------
(* The alert engine statement by statement: the background loop's scan, the  *)
(* scan of view_alerts and the alert of add_batch run in threads of their    *)
(* own, and every create_alert call has a connection of its own.             *)

IdleWorker == [pc |-> "idle", phase |-> 0, queue |-> << >>]

\* a scan whose connection reads the uncommitted writes of the connection
\* that holds the write lock
ScanViewDirty == IF dbLock \in DOMAIN req THEN req[dbLock].txBatches ELSE batches

\* the batches table as the scan's connection reads it: get_db() opens a
\* connection of its own, which sees committed rows only
ScanView == batches

\* the rows the query of rule ph returns
PhaseCandidates(ph) ==
    IF ph = 1 THEN LowStockCandidates(medicines, ScanView)
    ELSE IF ph = 2 THEN NearExpiryCandidates(medicines, ScanView, today)
    ELSE ExpiredCandidates(medicines, ScanView, today)

\* check_and_create_alerts is entered (alert_checker_thread, view_alerts)
ScanBegin(w) ==
    /\ worker[w].pc = "idle"
    /\ worker' = [worker EXCEPT ![w] = [pc |-> "query", phase |-> 1, queue |-> << >>]]
    /\ UNCHANGED <<medicines, batches, sales, alerts, today, dbLock, req,
                   started, threads, starter, sessions, listing>>

\* where a thread goes once the rows of a rule are used up
AfterRule(ph) ==
    IF ph \in {1, 2} THEN [pc |-> "query", phase |-> ph + 1, queue |-> << >>]
    ELSE IdleWorker

\* the fetchall() of the rule the scan has come to
ScanQuery(w) ==
    /\ worker[w].pc = "query"
    /\ LET rows == PhaseCandidates(worker[w].phase)
       IN worker' = [worker EXCEPT ![w] =
                        IF Len(rows) > 0
                        THEN [pc |-> "select", phase |-> worker[w].phase, queue |-> rows]
                        ELSE AfterRule(worker[w].phase)]
    /\ UNCHANGED <<medicines, batches, sales, alerts, today, dbLock, req,
                   started, threads, starter, sessions, listing>>

\* where a thread goes when one create_alert call returns
AfterCall(r) ==
    IF Len(r.queue) > 1 THEN [r EXCEPT !.pc = "select", !.queue = Tail(r.queue)]
    ELSE AfterRule(r.phase)

\* create_alert: the SELECT for an existing alert
CreateAlertSelect(w) ==
    /\ worker[w].pc = "select"
    /\ LET c == Head(worker[w].queue)
       IN worker' = [worker EXCEPT ![w] =
                        IF ExistingAlert(alerts, c.alert_type, c.message)
                        THEN AfterCall(worker[w])
                        ELSE [worker[w] EXCEPT !.pc = "insert"]]
    /\ UNCHANGED <<medicines, batches, sales, alerts, today, dbLock, req,
                   started, threads, starter, sessions, listing>>

\* create_alert: the INSERT and its commit
CreateAlertInsert(w) ==
    /\ worker[w].pc = "insert"
    /\ dbLock = NoOne
    /\ Len(alerts) < MaxAlerts
    /\ alerts' = Append(alerts, AlertRow(Head(worker[w].queue)))
    /\ worker' = [worker EXCEPT ![w] = AfterCall(worker[w])]
    /\ UNCHANGED <<medicines, batches, sales, today, dbLock, req,
                   started, threads, starter, sessions, listing>>

\* add_batch POST up to its db.commit(); its create_alert call follows in steps
AddBatchInsert(w, f) ==
    /\ worker[w].pc = "idle"
    /\ dbLock = NoOne
    /\ Len(batches) < MaxBatches
    /\ f.batch_no # ""
    /\ ~BatchNoExists(batches, f.batch_no)
    /\ batches' = Append(batches, BatchRow(f))
    /\ worker' = [worker EXCEPT ![w] =
                    IF /\ f.expiry_date - today <= NearExpiryDays
                       /\ f.medicine_id \in DOMAIN medicines
                    THEN [pc |-> "select", phase |-> 0,
                          queue |-> <<NewBatchAlert(medicines, f, today)>>]
                    ELSE IdleWorker]
    /\ UNCHANGED <<medicines, sales, alerts, today, dbLock, req,
                   started, threads, starter, sessions, listing>>

ConcBatchForms ==
    [medicine_id : {1}, batch_no : {"B2"}, quantity : {5}, expiry_date : {0, 40}]

InitConc ==
    /\ medicines = Medicines
    /\ batches = <<[medicine_id |-> 1, batch_no |-> "B1", quantity |-> 5, expiry_date |-> 3]>>
    /\ sales = << >>
    /\ alerts = << >>
    /\ today = 0
    /\ dbLock = NoOne
    /\ req = << >>
    /\ worker = [w \in {"bg", "web"} |-> IdleWorker]
    /\ started = TRUE
    /\ threads = << >>
    /\ starter = << >>
    /\ sessions = {}
    /\ listing = << >>

NextConc ==
    \/ \E w \in {"bg", "web"} : ScanBegin(w)
    \/ \E w \in {"bg", "web"} : ScanQuery(w)
    \/ \E w \in {"bg", "web"} : CreateAlertSelect(w)
    \/ \E w \in {"bg", "web"} : CreateAlertInsert(w)
    \/ \E f \in ConcBatchForms : AddBatchInsert("web", f)
    \/ \E id \in 1..Len(alerts) : mark_alert_read(id)
    \/ clear_all_alerts

SpecConc == InitConc /\ [][NextConc]_vars

\* C7: never two unread alerts with the same alert_type and the same first 50
\* characters of message.
C7_NoDuplicateUnread ==
    \A j, k \in 1..Len(alerts) :
        (/\ j # k
         /\ alerts[j].is_read = FALSE
         /\ alerts[k].is_read = FALSE
         /\ alerts[j].alert_type = alerts[k].alert_type)
            => MessagePrefix(alerts[j].message) # MessagePrefix(alerts[k].message)

-----------------------------------------------------------------------------
(* A scan running statement by statement while a sale request with several   *)
(* cart items is in progress.                                                *)

IsoBatches ==
    <<[medicine_id |-> 1, batch_no |-> "B1", quantity |-> 10, expiry_date |-> 40],
      [medicine_id |-> 1, batch_no |-> "B2", quantity |-> 10, expiry_date |-> 40]>>

\* carts of two items: on the two batches, on a batch that does not exist, and
\* for more than the stock
IsoSaleForms ==
    {FormOf("Ann", "555", <<l1, l2>>) :
        l1 \in [batch_id : {1}, quantity : {5}, price : {10}],
        l2 \in [batch_id : {2, 3}, quantity : {5, 15}, price : {10}]}

InitIso ==
    /\ medicines = Medicines
    /\ batches = IsoBatches
    /\ sales = << >>
    /\ alerts = << >>
    /\ today = 0
    /\ dbLock = NoOne
    /\ req = [p \in {"s1"} |-> IdleRequest]
    /\ worker = [w \in {"bg"} |-> IdleWorker]
    /\ started = TRUE
    /\ threads = << >>
    /\ starter = << >>
    /\ sessions = {}
    /\ listing = << >>

NextIso ==
    \/ ScanBegin("bg")
    \/ ScanQuery("bg")
    \/ CreateAlertSelect("bg")
    \/ CreateAlertInsert("bg")
    \/ \E f \in IsoSaleForms : Len(sales) < MaxSales /\ SellPost("s1", f)
    \/ SellCheck("s1")
    \/ SellUpdate("s1")
    \/ SellCommit("s1")
    \/ SellReturn("s1")

SpecIso == InitIso /\ [][NextIso]_vars

\* SUM(quantity_sold) over the rows k..Len(sl) of sl with batch_id = b
RECURSIVE SoldQuantity(_, _, _)
SoldQuantity(sl, b, k) ==
    IF k > Len(sl) THEN 0
    ELSE (IF sl[k].batch_id = b THEN sl[k].quantity_sold ELSE 0) + SoldQuantity(sl, b, k + 1)

\* C12: what a query of the scan reads of the batches is the state after the
\* sale requests that have committed and of no other: for every batch, the
\* quantity read plus the quantity of the committed Sale rows is the batch's
\* initial stock, so no decrement of an uncommitted or failed request is seen,
\* and of a committed request all decrements are.
C12_ScanSeesCommitted ==
    \A w \in DOMAIN worker :
        worker[w].pc = "query" =>
            /\ Len(ScanView) = Len(IsoBatches)
            /\ \A b \in 1..Len(IsoBatches) :
                  ScanView[b].quantity + SoldQuantity(sales, b, 1) = IsoBatches[b].quantity

\* C12's case: the scan is at a query while the sale has decremented its first
\* item and not yet committed
C12_Witness ==
    /\ worker["bg"].pc = "query"
    /\ req["s1"].pc = "check"
    /\ req["s1"].i = 2
    /\ dbLock = "s1"
    /\ req["s1"].txBatches # batches

-----------------------------------------------------------------------------
(* Batch creation statement by statement: two add_batch requests in threads  *)
(* of their own, and scans.                                                  *)

\* add_batch POST: the form is read and SELECT id FROM batches WHERE batch_no = ?
\* finds no row; a form without batch number, or whose number exists, is
\* answered with the error flash and inserts nothing
AddBatchSelect(w, f) ==
    /\ worker[w].pc = "idle"
    /\ f.batch_no # ""
    /\ ~BatchNoExists(batches, f.batch_no)
    /\ worker' = [worker EXCEPT ![w] = [pc |-> "batch_insert", phase |-> 0, queue |-> <<f>>]]
    /\ UNCHANGED <<medicines, batches, sales, alerts, today, dbLock, req,
                   started, threads, starter, sessions, listing>>

\* add_batch POST: INSERT INTO batches and db.commit(); the create_alert call
\* for a batch that expires within 30 days follows in steps
AddBatchCommit(w) ==
    /\ worker[w].pc = "batch_insert"
    /\ dbLock = NoOne
    /\ Len(batches) < MaxBatches
    /\ LET f == Head(worker[w].queue)
       IN /\ batches' = Append(batches, BatchRow(f))
          /\ worker' = [worker EXCEPT ![w] =
                          IF /\ f.expiry_date - today <= NearExpiryDays
                             /\ f.medicine_id \in DOMAIN medicines
                          THEN [pc |-> "select", phase |-> 0,
                                queue |-> <<NewBatchAlert(medicines, f, today)>>]
                          ELSE IdleWorker]
    /\ UNCHANGED <<medicines, sales, alerts, today, dbLock, req,
                   started, threads, starter, sessions, listing>>

\* the forms of the add_batch page: no stock or some, expired, expiring within
\* 30 days, or later
NewBatchForms ==
    [medicine_id : {1}, batch_no : {"B1", "B2"}, quantity : {0, 5}, expiry_date : {-1, 10, 40}]

InitBatch ==
    /\ medicines = Medicines
    /\ batches = << >>
    /\ sales = << >>
    /\ alerts = << >>
    /\ today = 0
    /\ dbLock = NoOne
    /\ req = << >>
    /\ worker = [w \in {"b1", "b2"} |-> IdleWorker]
    /\ started = TRUE
    /\ threads = << >>
    /\ starter = << >>
    /\ sessions = {}
    /\ listing = << >>

NextBatch ==
    \/ \E w \in {"b1", "b2"}, f \in NewBatchForms : AddBatchSelect(w, f)
    \/ \E w \in {"b1", "b2"} : AddBatchCommit(w)
    \/ \E w \in {"b1", "b2"} : CreateAlertSelect(w)
    \/ \E w \in {"b1", "b2"} : CreateAlertInsert(w)
    \/ check_and_create_alerts

SpecBatch == InitBatch /\ [][NextBatch]_vars

\* C21: no two batches share a batch_no, in every reachable state.
C21_BatchNoUnique ==
    \A j, k \in 1..Len(batches) : j # k => batches[j].batch_no # batches[k].batch_no

\* the batches an expiry alert a is about, in the table bs: the batch of its
\* batch_id, or for the alert of add_batch the batch its message names
Concerned(a, meds, bs, now) ==
    {b \in 1..Len(bs) :
        \/ a.batch_id = b
        \/ /\ a.batch_id = NULL
           /\ bs[b].medicine_id \in DOMAIN meds
           /\ a.message = NewBatchAlert(meds, bs[b], now).message}

\* C29: whenever a step inserts an expiry alert, the batch the alert is about
\* has quantity > 0 and today <= expiry_date <= today + 30 at that moment.
C29_ExpiryAlertsQualify ==
    [][\A k \in (Len(alerts) + 1)..Len(alerts') :
          alerts'[k].alert_type = "expiry"
              => /\ Concerned(alerts'[k], medicines', batches', today') # {}
                 /\ \A b \in Concerned(alerts'[k], medicines', batches', today') :
                       /\ batches'[b].quantity > 0
                       /\ batches'[b].expiry_date >= today'
                       /\ batches'[b].expiry_date <= today' + 30]_vars

-----------------------------------------------------------------------------
(* The all-alerts view and the life of an alert row.                         *)

\* created_at of row k: datetime.now() at its INSERT; the rows are inserted
\* one after the other, so the time stamps grow with the row ids
CreatedAt(al, k) == k

\* SELECT a.*: a row of the listing
ListedRow(al, k) ==
    [id |-> k, created_at |-> CreatedAt(al, k), alert_type |-> al[k].alert_type,
     message |-> al[k].message, priority |-> al[k].priority, is_read |-> al[k].is_read]

\* the order of get_alerts_api: ORDER BY a.created_at DESC
BeforeNewestFirst(al, j, k) == CreatedAt(al, j) >= CreatedAt(al, k)

\* ORDER BY CASE WHEN a.is_read = 0 THEN 0 ELSE 1 END, a.created_at DESC:
\* row j does not come after row k
Before(al, j, k) ==
    LET key(x) == IF al[x].is_read = FALSE THEN 0 ELSE 1
    IN \/ key(j) < key(k)
       \/ key(j) = key(k) /\ CreatedAt(al, j) >= CreatedAt(al, k)

\* the rows S of al in the order of the query
RECURSIVE OrderBy(_, _)
OrderBy(al, S) ==
    IF S = {} THEN << >>
    ELSE LET first == CHOOSE j \in S : \A k \in S : Before(al, j, k)
         IN <<ListedRow(al, first)>> \o OrderBy(al, S \ {first})

\* the SELECT of view_alerts: every row of alerts (the LEFT JOINs drop none)
AlertList(al) == OrderBy(al, 1..Len(al))

\* a view that reads the list before it scans
ListedTableBefore(before, after) == before

\* the alerts table the SELECT of view_alerts reads: the one its call of
\* check_and_create_alerts has left, every create_alert having committed
ListedTable(before, after) == after

\* view_alerts: check_and_create_alerts(), then the SELECT, then the page.  The
\* scan runs to its end (n = 3) or fails after n of its rules and returns
\* False, which view_alerts does not look at.
view_alerts ==
    /\ dbLock = NoOne
    /\ \E n \in 0..3 :
          LET scanned == IF n = 3 THEN ScanAll(alerts, medicines, batches, today)
                         ELSE ScanRules(n)
          IN /\ Len(scanned) <= MaxAlerts
             /\ alerts' = scanned
             /\ listing' = AlertList(ListedTable(alerts, scanned))
    /\ UNCHANGED <<medicines, batches, sales, today, dbLock, req, worker,
                   started, threads, starter, sessions>>

InitView ==
    /\ medicines = Medicines
    /\ batches = <<[medicine_id |-> 1, batch_no |-> "B1", quantity |-> 5, expiry_date |-> 3]>>
    /\ sales = << >>
    /\ alerts = << >>
    /\ today = 0
    /\ dbLock = NoOne
    /\ req = << >>
    /\ worker = << >>
    /\ started = TRUE
    /\ threads = << >>
    /\ starter = << >>
    /\ sessions = {}
    /\ listing = << >>

NextView ==
    \/ view_alerts
    \/ check_and_create_alerts
    \/ \E id \in 1..Len(alerts) : mark_alert_read(id)
    \/ clear_all_alerts
    \/ \E id \in DOMAIN Medicines : delete_medicine(id)
    \/ \E f \in ConcBatchForms : add_batch(f)
    \/ NextDay

SpecView == InitView /\ [][NextView]_vars

\* C22: no step removes an alert row or changes its type, message, priority or
\* references, and no step takes is_read from true to false; a mark-read of
\* one alert leaves every other alert as it was, and a mark-all-read leaves no
\* alert unread.
C22_AlertLifecycle ==
    [][/\ Len(alerts') >= Len(alerts)
       /\ \A k \in 1..Len(alerts) :
             /\ alerts'[k] = [alerts[k] EXCEPT !.is_read = alerts'[k].is_read]
             /\ alerts[k].is_read => alerts'[k].is_read
       /\ \A id \in 1..Len(alerts) :
             mark_alert_read(id) => \A k \in 1..Len(alerts) : k # id => alerts'[k] = alerts[k]
       /\ clear_all_alerts => \A k \in 1..Len(alerts') : alerts'[k].is_read]_vars

\* C22's case: of several alerts one has been marked read, the others are
\* unread, and the medicine the read one refers to has been deleted
C22_Witness ==
    /\ Len(alerts) >= 2
    /\ \E j, k \in 1..Len(alerts) :
          /\ alerts[j].is_read
          /\ ~alerts[k].is_read
          /\ alerts[j].medicine_id \notin DOMAIN medicines

\* C24: the listing of the all-alerts view holds each alert once, every unread
\* alert before every read one, and within the unread and within the read
\* alerts the later created_at first.
C24_ListingOrder ==
    /\ [](\A i, j \in 1..Len(listing) : i # j => listing[i].id # listing[j].id)
    /\ [](\A i, j \in 1..Len(listing) :
            i < j => /\ listing[i].is_read => listing[j].is_read
                     /\ listing[i].is_read = listing[j].is_read
                           => listing[i].created_at >= listing[j].created_at)
    /\ [][listing' # listing => Len(listing') = Len(alerts')]_vars

\* C24's case: the listing shows unread alerts before read ones, of which some
\* are newer than the unread
C24_Witness ==
    \E i, j \in 1..Len(listing) :
        /\ i < j
        /\ ~listing[i].is_read
        /\ listing[j].is_read
        /\ listing[i].created_at < listing[j].created_at

\* C26: the list a view request returns is read after its scan: it has every
\* row of the alerts table as the scan of that request left it, the rows the
\* scan inserted among them.
C26_ScanBeforeList ==
    [][listing' # listing
          => \A k \in 1..Len(alerts') :
                \E i \in 1..Len(listing') :
                    /\ listing'[i].id = k
                    /\ listing'[i].message = alerts'[k].message
                    /\ listing'[i].is_read = alerts'[k].is_read]_vars

\* C26's case: the view has listed alerts that its own scan inserted: the
\* table and the listing have the same rows, unread
C26_Witness ==
    /\ Len(listing) >= 2
    /\ Len(listing) = Len(alerts)
    /\ \A i \in 1..Len(listing) : ~listing[i].is_read

-----------------------------------------------------------------------------
(* Scans that fail at one candidate, over stores of two batches of one      *)
(* medicine, with alerts marked read and cleared between the scans.         *)

FailQuantities == {5, 30}

FailExpiries == {-1, 0, 40}

FailStores ==
    {<<[medicine_id |-> 1, batch_no |-> "B1", quantity |-> q1, expiry_date |-> e1],
       [medicine_id |-> 1, batch_no |-> "B2", quantity |-> q2, expiry_date |-> e2]>> :
        q1 \in FailQuantities, q2 \in FailQuantities,
        e1 \in FailExpiries, e2 \in FailExpiries}

InitFail ==
    /\ medicines = Medicines
    /\ batches \in FailStores
    /\ sales = << >>
    /\ alerts = << >>
    /\ today = 0
    /\ dbLock = NoOne
    /\ req = << >>
    /\ worker = << >>
    /\ started = FALSE
    /\ threads = << >>
    /\ starter = << >>
    /\ sessions = {}
    /\ listing = << >>

NextFail ==
    \/ check_and_create_alerts
    \/ scan_raising
    \/ scan_insert_failing
    \/ \E id \in 1..Len(alerts) : mark_alert_read(id)
    \/ clear_all_alerts
    \/ NextDay

SpecFail == InitFail /\ [][NextFail]_vars

\* the create_alert calls a scan of the present store makes, all rules
Candidates ==
    LowStockCandidates(medicines, batches)
        \o NearExpiryCandidates(medicines, batches, today)
        \o ExpiredCandidates(medicines, batches, today)

\* C23: after a scan in which one candidate fails, in its evaluation (a row of
\* rule 2) or in its insert (a row of rule 1), every other candidate of every
\* rule has its unread alert.
C23_FailureIsolated ==
    LET n1 == Len(LowStockCandidates(medicines, batches))
        n2 == Len(NearExpiryCandidates(medicines, batches, today))
    IN /\ \A k \in 1..n2 :
             \A j \in 1..Len(Candidates) :
                 j # n1 + k =>
                     ExistingAlert(ScanRaisingAt(alerts, medicines, batches, today, k),
                                   Candidates[j].alert_type, Candidates[j].message)
       /\ \A k \in 1..n1 :
             \A j \in 1..Len(Candidates) :
                 j # k =>
                     ExistingAlert(ScanInsertFailingAt(alerts, medicines, batches, today, k),
                                   Candidates[j].alert_type, Candidates[j].message)

-----------------------------------------------------------------------------
(* The background scheduler: start_alert_checker, called by the entry point  *)
(* and by every successful login, and the alert_checker_thread loops.        *)

Logins == {"l1", "l2"}

\* a login that calls start_alert_checker whatever the credentials
StartsCheckerAlways(valid) == TRUE

\* login: if user and check_password_hash(...), the branch that calls
\* start_alert_checker
StartsChecker(valid) == valid

\* python app.py: the __main__ block runs and calls start_alert_checker before
\* app.run() serves the first request
EntryPoint ==
    /\ starter["main"].pc = "boot"
    /\ starter' = [starter EXCEPT !["main"] = [pc |-> "check", mode |-> "script", result |-> ""]]
    /\ UNCHANGED <<medicines, batches, sales, alerts, today, dbLock, req, worker,
                   started, threads, sessions, listing>>

\* the module is imported by a server (flask run, a WSGI container): the
\* __main__ block does not run
Imported ==
    /\ starter["main"].pc = "boot"
    /\ starter' = [starter EXCEPT !["main"] = [pc |-> "serving", mode |-> "imported", result |-> ""]]
    /\ UNCHANGED <<medicines, batches, sales, alerts, today, dbLock, req, worker,
                   started, threads, sessions, listing>>

\* login POST by request thread l, with valid or invalid credentials
LoginPost(l, valid) ==
    /\ starter["main"].pc = "serving"
    /\ starter[l].pc = "idle"
    /\ sessions' = IF valid THEN sessions \cup {l} ELSE sessions
    /\ starter' = [starter EXCEPT ![l] =
                      IF StartsChecker(valid)
                      THEN [@ EXCEPT !.pc = "check", !.result = IF valid THEN "ok" ELSE "invalid"]
                      ELSE [@ EXCEPT !.result = "invalid"]]
    /\ UNCHANGED <<medicines, batches, sales, alerts, today, dbLock, req, worker,
                   started, threads, listing>>

\* start_alert_checker: if not hasattr(app, 'alert_checker_started')
StartCheck(c) ==
    /\ starter[c].pc = "check"
    /\ starter' = [starter EXCEPT ![c].pc = IF started THEN "return" ELSE "spawn"]
    /\ UNCHANGED <<medicines, batches, sales, alerts, today, dbLock, req, worker,
                   started, threads, sessions, listing>>

NewThread == [pc |-> "scan", wait |-> 0, result |-> "none"]

\* start_alert_checker: threading.Thread(target=alert_checker_thread).start()
StartSpawn(c) ==
    /\ starter[c].pc = "spawn"
    /\ threads' = Append(threads, NewThread)
    /\ starter' = [starter EXCEPT ![c].pc = "set"]
    /\ UNCHANGED <<medicines, batches, sales, alerts, today, dbLock, req, worker,
                   started, sessions, listing>>

\* start_alert_checker: app.alert_checker_started = True
StartSet(c) ==
    /\ starter[c].pc = "set"
    /\ started' = TRUE
    /\ starter' = [starter EXCEPT ![c].pc = "return"]
    /\ UNCHANGED <<medicines, batches, sales, alerts, today, dbLock, req, worker,
                   threads, sessions, listing>>

\* start_alert_checker returns: app.run() starts serving, a login redirects
StartReturn(c) ==
    /\ starter[c].pc = "return"
    /\ starter' = [starter EXCEPT ![c].pc = IF c = "main" THEN "serving" ELSE "idle"]
    /\ UNCHANGED <<medicines, batches, sales, alerts, today, dbLock, req, worker,
                   started, threads, sessions, listing>>

\* alert_checker_thread after check_and_create_alerts returned False: the
\* return value is not looked at, the next statement is time.sleep(300)
SleepAfterError == NormalSleep

\* alert_checker_thread: check_and_create_alerts() returns True, time.sleep(300)
ThreadScanOk(t) ==
    /\ threads[t].pc = "scan"
    /\ dbLock = NoOne
    /\ Len(ScanAll(alerts, medicines, batches, today)) <= MaxAlerts
    /\ alerts' = ScanAll(alerts, medicines, batches, today)
    /\ threads' = [threads EXCEPT ![t] = [pc |-> "sleep", wait |-> NormalSleep, result |-> "ok"]]
    /\ UNCHANGED <<medicines, batches, sales, today, dbLock, req, worker,
                   started, starter, sessions, listing>>

\* alert_checker_thread: a query of check_and_create_alerts raises before or
\* after a rule, its except prints and returns False; the loop sleeps
ThreadScanError(t) ==
    /\ threads[t].pc = "scan"
    /\ dbLock = NoOne
    /\ \E n \in 0..2 :
          /\ Len(ScanRules(n)) <= MaxAlerts
          /\ alerts' = ScanRules(n)
    /\ threads' = [threads EXCEPT ![t] = [pc |-> "sleep", wait |-> SleepAfterError, result |-> "error"]]
    /\ UNCHANGED <<medicines, batches, sales, today, dbLock, req, worker,
                   started, starter, sessions, listing>>

\* alert_checker_thread: an exception leaves check_and_create_alerts (raised by
\* the print of its own except block); the loop's except sleeps 60 seconds
ThreadScanRaised(t) ==
    /\ threads[t].pc = "scan"
    /\ dbLock = NoOne
    /\ \E n \in 0..2 :
          /\ Len(ScanRules(n)) <= MaxAlerts
          /\ alerts' = ScanRules(n)
    /\ threads' = [threads EXCEPT ![t] = [pc |-> "sleep", wait |-> ErrorSleep, result |-> "raised"]]
    /\ UNCHANGED <<medicines, batches, sales, today, dbLock, req, worker,
                   started, starter, sessions, listing>>

\* a loop that returns once a scan has failed
LoopNextExit(result) == IF result = "ok" THEN "scan" ELSE "exit"

\* alert_checker_thread: both the try body and the except handler end inside
\* while True, whatever the scan did
LoopNext(result) == "scan"

\* time.sleep returns: the loop's next round
ThreadWake(t) ==
    /\ threads[t].pc = "sleep"
    /\ threads' = [threads EXCEPT ![t] = [@ EXCEPT !.pc = LoopNext(threads[t].result)]]
    /\ UNCHANGED <<medicines, batches, sales, alerts, today, dbLock, req, worker,
                   started, starter, sessions, listing>>

InitSched ==
    /\ medicines = Medicines
    /\ batches = <<[medicine_id |-> 1, batch_no |-> "B1", quantity |-> 5, expiry_date |-> 3]>>
    /\ sales = << >>
    /\ alerts = << >>
    /\ today = 0
    /\ dbLock = NoOne
    /\ req = << >>
    /\ worker = << >>
    /\ started = FALSE
    /\ threads = << >>
    /\ starter = [c \in Logins \cup {"main"} |->
                    IF c = "main" THEN [pc |-> "boot", mode |-> "boot", result |-> ""]
                    ELSE [pc |-> "idle", mode |-> "request", result |-> ""]]
    /\ sessions = {}
    /\ listing = << >>

NextSched ==
    \/ EntryPoint
    \/ Imported
    \/ \E l \in Logins, valid \in BOOLEAN : LoginPost(l, valid)
    \/ \E c \in Logins \cup {"main"} : StartCheck(c)
    \/ \E c \in Logins \cup {"main"} : StartSpawn(c)
    \/ \E c \in Logins \cup {"main"} : StartSet(c)
    \/ \E c \in Logins \cup {"main"} : StartReturn(c)
    \/ \E t \in 1..Len(threads) : ThreadScanOk(t)
    \/ \E t \in 1..Len(threads) : ThreadScanError(t)
    \/ \E t \in 1..Len(threads) : ThreadScanRaised(t)
    \/ \E t \in 1..Len(threads) : ThreadWake(t)
    \/ \E id \in 1..Len(alerts) : mark_alert_read(id)

SpecSched == InitSched /\ [][NextSched]_vars

\* time.sleep returns after its interval and the daemon thread is scheduled
SchedFairness ==
    \A t \in 1..Cardinality(Logins) : WF_vars(t <= Len(threads) /\ ThreadWake(t))

SpecSchedFair == SpecSched /\ SchedFairness

\* the unread alerts of one type about medicine m
UnreadOfMedicine(al, alert_type, m) ==
    {k \in 1..Len(al) : /\ al[k].alert_type = alert_type
                        /\ al[k].is_read = FALSE
                        /\ al[k].medicine_id = m}

\* the unread alerts of one type about batch b
UnreadOfBatch(al, alert_type, b) ==
    {k \in 1..Len(al) : /\ al[k].alert_type = alert_type
                        /\ al[k].is_read = FALSE
                        /\ al[k].batch_id = b}

\* the medicine's low-stock condition: 0 < total stock <= 20
IsLowStock(m) ==
    TotalStock(batches, m) > 0 /\ TotalStock(batches, m) <= LowStockLimit

\* C4: a scan run right after a scan, with nothing changed in between, inserts
\* no alert: the table a scan leaves is a fixed point of the scan.
C4_ScanIdempotent ==
    LET once == ScanAll(alerts, medicines, batches, today)
    IN ScanAll(once, medicines, batches, today) = once

\* C4's case: a scan has run and left unread alerts for the current candidates,
\* so a second scan has something to suppress
C4_Witness ==
    /\ Len(LowStockCandidates(medicines, batches)) > 0
    /\ Len(NearExpiryCandidates(medicines, batches, today)) > 0
    /\ \E k \in 1..Len(alerts) : alerts[k].is_read = FALSE /\ alerts[k].alert_type = "low_stock"
    /\ \E k \in 1..Len(alerts) : alerts[k].is_read = FALSE /\ alerts[k].alert_type = "expiry"
    /\ ScanAll(alerts, medicines, batches, today) = alerts

\* C5: at most one unread low_stock alert per medicine and at most one unread
\* expiry alert per batch, in every reachable state.
C5_OneUnreadPerSubject ==
    /\ \A m \in DOMAIN medicines : Cardinality(UnreadOfMedicine(alerts, "low_stock", m)) <= 1
    /\ \A b \in 1..Len(batches) : Cardinality(UnreadOfBatch(alerts, "expiry", b)) <= 1

\* C6: the next scan inserts no low_stock alert for a medicine that has an
\* unread one for its present stock; and for a low-stock medicine whose
\* low_stock alerts have all been marked read it inserts exactly one new
\* unread low_stock alert.
C6_DedupThenRefire ==
    LET scanned == ScanAll(alerts, medicines, batches, today) IN
    \A m \in DOMAIN medicines :
        LET fresh == {k \in UnreadOfMedicine(scanned, "low_stock", m) : k > Len(alerts)}
        IN /\ (\E k \in UnreadOfMedicine(alerts, "low_stock", m) :
                  alerts[k].message = LowStockAlert(medicines, batches, m).message)
               => fresh = {}
           /\ (/\ IsLowStock(m)
               /\ UnreadOfMedicine(alerts, "low_stock", m) = {}
               /\ \E k \in 1..Len(alerts) : /\ alerts[k].alert_type = "low_stock"
                                            /\ alerts[k].medicine_id = m
                                            /\ alerts[k].is_read = TRUE)
               => Cardinality(fresh) = 1

\* C8: however often start_alert_checker is called, one alert_checker_thread
\* loop exists: never more than one, and one once the start flag is set.
C8_OneLoop ==
    /\ Len(threads) <= 1
    /\ started => Len(threads) = 1

C10_BackOff ==
    \A t \in 1..Len(threads) :
        threads[t].pc = "sleep" =>
            /\ threads[t].result = "ok" => threads[t].wait = NormalSleep
            /\ threads[t].result \in {"error", "raised"} => threads[t].wait = ErrorSleep

\* C11: a started loop never ends: no step removes a loop or leaves one outside
\* its scan/sleep cycle, and a loop whose scan failed (the failure caught inside
\* check_and_create_alerts or by the loop itself) comes to attempt a scan again.
C11_LoopSurvivesFailure ==
    /\ [][/\ Len(threads') >= Len(threads)
          /\ \A t \in 1..Len(threads') : threads'[t].pc \in {"scan", "sleep"}]_vars
    /\ \A t \in 1..Cardinality(Logins) :
          (/\ t <= Len(threads)
           /\ threads[t].pc = "sleep"
           /\ threads[t].result \in {"error", "raised"})
              ~> (t <= Len(threads) /\ threads[t].pc = "scan")

\* C11's case: a loop is back at its scan after a scan that failed
C11_Witness ==
    \E t \in 1..Len(threads) :
        threads[t].pc = "scan" /\ threads[t].result \in {"error", "raised"}

\* C25: create_alert finds an existing alert for a candidate exactly when an
\* unread alert of the candidate's type has the candidate's first 50
\* characters as its own first 50 characters; checked for the candidates the
\* scan of each reachable state makes.
C25_DedupExact ==
    \A j \in 1..Len(Candidates) :
        ExistingAlert(alerts, Candidates[j].alert_type, Candidates[j].message)
            <=> \E k \in 1..Len(alerts) :
                    /\ alerts[k].alert_type = Candidates[j].alert_type
                    /\ alerts[k].is_read = FALSE
                    /\ MessagePrefix(alerts[k].message) = MessagePrefix(Candidates[j].message)

\* C27: every step keeps, for every batch, its quantity plus the summed
\* quantity_sold of the Sale rows on it, whether the step is of a request that
\* commits or of one that fails; a batch a step adds has no Sale row on it, and
\* no Sale row is on a batch that does not exist.  With no Sale row in the
\* initial store, the sum is the quantity the batch was created with.
C27_StockConserved ==
    /\ [][/\ Len(batches') >= Len(batches)
          /\ \A b \in 1..Len(batches') :
                batches'[b].quantity + SoldQuantity(sales', b, 1)
                    = IF b <= Len(batches)
                      THEN batches[b].quantity + SoldQuantity(sales, b, 1)
                      ELSE batches'[b].quantity]_vars
    /\ [](\A k \in 1..Len(sales) : sales[k].batch_id \in 1..Len(batches))

\* C27's case: Sale rows of a committed request are on a batch, and another
\* request on that batch has failed after its first line was written
C27_Witness ==
    /\ \E p \in DOMAIN req :
          /\ req[p].pc = "failed"
          /\ req[p].i = 2
          /\ Len(req[p].sale_items) = 1
          /\ SoldQuantity(sales, req[p].batch_ids[1], 1) > 0
    /\ \E p \in DOMAIN req : req[p].pc = "done"

\* the request r cut to its first n lines
FirstLines(r, n) ==
    [r EXCEPT !.batch_ids = SubSeq(r.batch_ids, 1, n),
              !.quantities = SubSeq(r.quantities, 1, n)]

\* C28: the stock check of a line after the first reads, of every batch, the
\* committed quantity less the quantities of the request's earlier lines on
\* it; a check that finds the lines so far on its batch to sum to more than
\* the batch's quantity fails the request with the stock error and leaves the
\* batches as they were; and a request that commits asks of every batch it
\* names on several lines at most the batch's quantity.
C28_RepeatedBatch ==
    /\ [](\A p \in DOMAIN req :
            (req[p].pc = "check" /\ req[p].i > 1)
                => /\ Len(ViewBatches(p)) = Len(batches)
                   /\ \A b \in 1..Len(batches) :
                         ViewBatches(p)[b].quantity
                             = batches[b].quantity
                                   - LineQuantity(FirstLines(req[p], req[p].i - 1), b, 1))
    /\ [][\A p \in DOMAIN req :
            (/\ req[p].pc = "check"
             /\ req[p].i > 1
             /\ req[p].batch_ids[req[p].i] \in 1..Len(batches)
             /\ LineQuantity(FirstLines(req[p], req[p].i), req[p].batch_ids[req[p].i], 1)
                    > batches[req[p].batch_ids[req[p].i]].quantity
             /\ req'[p] # req[p])
                => /\ req'[p].pc = "failed"
                   /\ req'[p].error = "insufficient_stock"
                   /\ batches' = batches
                   /\ sales' = sales]_vars
    /\ [][\A p \in DOMAIN req :
            (req[p].pc = "commit" /\ req'[p].pc = "done")
                => \A b \in 1..Len(batches) :
                      (\E j, k \in 1..Len(req[p].batch_ids) :
                          j # k /\ req[p].batch_ids[j] = b /\ req[p].batch_ids[k] = b)
                          => LineQuantity(req[p], b, 1) <= batches[b].quantity]_vars

\* C28's case: a request of two lines on one batch, each within the batch's
\* committed quantity and together over it, has failed at its second line
C28_Witness ==
    \E p \in DOMAIN req :
        /\ req[p].pc = "failed"
        /\ req[p].error = "insufficient_stock"
        /\ req[p].i = 2
        /\ req[p].batch_ids[1] = req[p].batch_ids[2]
        /\ req[p].batch_ids[1] \in 1..Len(batches)
        /\ req[p].quantities[1] <= batches[req[p].batch_ids[1]].quantity
        /\ req[p].quantities[2] <= batches[req[p].batch_ids[1]].quantity
        /\ req[p].quantities[1] + req[p].quantities[2] > batches[req[p].batch_ids[1]].quantity

\* C30: every Sale row a step inserts is on a batch whose expiry_date is later
\* than today.
C30_OnlySellable ==
    [][\A k \in (Len(sales) + 1)..Len(sales') :
          /\ sales'[k].batch_id \in 1..Len(batches)
          /\ batches[sales'[k].batch_id].expiry_date > today]_vars

====
